---------------------------- MODULE Spec2Model ----------------------------
(***************************************************************************)
(* Fall-detection FSM of hokudai_fall (src/hokudai_fall/logic.py), driven  *)
(* by the inference loop of src/hokudai_fall/main.py.                      *)
(*                                                                         *)
(* Units.  The code computes with floats; the model uses exact integers:   *)
(*   time          deciseconds  (0.1 s)      T_still_sec = 1.0  ->  10     *)
(*   hip_y, drops  tenths of a pixel         v_still 0.5 px     ->   5     *)
(*   ratio         hundredths                ratio_th = 0.6     ->  60     *)
(*   theta, h, w   degrees / whole pixels                                  *)
(* The pose inputs are chosen so that every quotient the code forms is     *)
(* exact in these units.                                                   *)
(***************************************************************************)
EXTENDS Integers, Sequences, FiniteSets, TLC

VARIABLES
    infer_fps,        \* FallLogicFSM.infer_fps
    history,          \* FallLogicFSM.history (bounded deque of Features)
    cooldown_until,   \* FallLogicFSM.cooldown_until
    state,            \* FallLogicFSM.state: "idle" | "await_still"
    prelim_hist_len,  \* FallLogicFSM.prelim_hist_len
    still_deadline,   \* FallLogicFSM.still_deadline
    pre_theta_max,    \* FallLogicFSM._pre_theta_max
    pre_ratio_min,    \* FallLogicFSM._pre_ratio_min
    pre_hip_drop,     \* FallLogicFSM._pre_hip_drop
    now,              \* value read from time.time() by the last update call
    ft,               \* local ft of the last update call (None: no features)
    ret,              \* value returned by the last update call
    calls,            \* number of update calls made so far
    latch_time,       \* history variable: clock value of the last latch
    trig_time,        \* history variable: clock value of the last trigger
    triggers,         \* history variable: number of triggers returned
    fed_since_latch,  \* history variable: features appended in await_still since the latch
    pre_seconds,      \* cfg.saver.pre_seconds (deciseconds)
    post_seconds,     \* cfg.saver.post_seconds (deciseconds)
    clock,            \* time.time() as the main loop last read it
    ticks,            \* history variable: inference ticks completed by the main loop
    hist,             \* main: hist, the bounded deque of (FrameRecord, pose)
    collecting,       \* main: collecting (None or the record of the event being collected)
    seq,              \* main: seq
    cap_index,        \* CaptureThread._index
    ring,             \* CaptureThread.ring
    queue,            \* SaverWorker.queue
    stop_flag,        \* SaverWorker.stop_flag
    worker,           \* position of SaverWorker._run: "wait" | "save" | "exited"
    cur_ev,           \* local ev of SaverWorker._run while it saves
    submitted,        \* history variable: event ids in the order submit received them
    taken,            \* history variable: event ids in the order the worker popped them
    outcomes,         \* history variable: <<event id, saved without exception>> per finished save
    at_stop,          \* history variable: ids queued when stop() set the flag
    camera_fps,       \* cfg.camera.fps
    cap_thread,       \* position of CaptureThread._run: "unstarted" | "running" | "reading" | "exited"
    cap_stop_flag,    \* CaptureThread.stop_flag
    read_failures,    \* history variable: device reads that failed
    cap_released,     \* CaptureThread.cap has been released by stop()
    stop_pc,          \* position of CaptureThread.stop: "idle" | "joining" | "releasing" | "done"
    main_pc,          \* position of main: "start" | "loop" | "finally" | "saver_stopped" | "returned" | "raised"
    exit_code,        \* value returned by main (None before it returns)
    env,              \* what main finds at start: config files, camera, pose backend
    shutdown_log,     \* history variable: the stop calls made by main's finally block, in order
    dirs,             \* the event directories under base_dir
    free_pct,         \* free-disk percentage at base_dir
    ret_pc,           \* position of enforce_retention: "idle" | "pressure" | "returned"
    ret_exit,         \* history variable: the statement through which enforce_retention returned
    removed,          \* history variable: one record per directory enforce_retention deleted
    disk_env          \* whether base_dir exists and whether shutil.disk_usage works on it

fsm == <<infer_fps, history, cooldown_until, state, prelim_hist_len,
         still_deadline, pre_theta_max, pre_ratio_min, pre_hip_drop>>
obs == <<now, ft, ret, calls, latch_time, trig_time, triggers, fed_since_latch>>
main == <<pre_seconds, post_seconds, clock, ticks, hist, collecting, seq>>
capture == <<cap_index, ring, camera_fps, cap_thread, cap_stop_flag, read_failures,
             cap_released, stop_pc>>
life == <<main_pc, exit_code, env, shutdown_log>>
disk == <<dirs, free_pct, ret_pc, ret_exit, removed, disk_env>>
saver == <<queue, stop_flag, worker, cur_ev, submitted, taken, outcomes, at_stop>>
vars == <<fsm, obs, main, capture, saver, life, disk>>

(* Python None: a value distinct from every pose, feature and snapshot *)
None == [none |-> TRUE]
(* marks a clock-valued history variable as unset: before every clock value *)
Never == 0 - 1

---------------------------------------------------------------------------
(* DetectionConfig defaults (src/hokudai_fall/config.py), in model units.  *)
angle_deg_th == 55
ratio_th == 60
T_pose_sec == 5
hip_drop_px_th == 400
T_drop_sec == 4
T_still_sec == 10
v_still_px_per_frame == 5
min_person_height_px == 120
cooldown_sec == 50
C_grace_sec == 6

(* Bounds of the model. *)
SlowFps == 2
MaxCalls == 7
MaxCallsLong == 10
MaxTicks == 7
MaxFrames == 3
MaxEvents == 4
MaxCaptured == 9
MaxFailures == 2
MaxScenarioTicks == 45
MaxDirs == 3

(* SaverConfig defaults (src/hokudai_fall/config.py), in deciseconds *)
DefaultPre == 20
DefaultPost == 30

---------------------------------------------------------------------------
Max(a, b) == IF a >= b THEN a ELSE b
Min(a, b) == IF a <= b THEN a ELSE b
Abs(a) == IF a < 0 THEN -a ELSE a

(* list(xs)[-k:] of Python for k >= 0: the last k elements, but the whole *)
(* list when k = 0 (xs[-0:] is xs[0:]) or when k exceeds the length.      *)
LastK(xs, k) ==
    IF k = 0 \/ k >= Len(xs) THEN xs
    ELSE SubSeq(xs, Len(xs) - k + 1, Len(xs))

(* Pose inputs: the estimator's result reduced to what _compute_features  *)
(* reads: the number of keypoints, the least score among joints 11, 12,   *)
(* 23, 24 (tenths), the signed trunk angle atan2(vx, vy) in degrees, the  *)
(* hip centre y and the bbox width and height.                            *)
MkPose(n, s, a, y, w, h) ==
    [nkps |-> n, score |-> s, tilt |-> a, hip_cy |-> y, bw |-> w, bh |-> h]

PoseUpright == MkPose(33, 9, 5, 4000, 120, 300)
PoseLying   == MkPose(33, 9, -80, 4600, 600, 300)
PoseLeaning == MkPose(33, 9, 60, 4610, 300, 300)
PoseSmall   == MkPose(33, 9, 80, 4600, 160, 80)
PoseFaint   == MkPose(33, 1, 80, 4600, 600, 300)
PoseTrunc   == MkPose(17, 9, 80, 4600, 600, 300)

(* FallLogicFSM._compute_features *)
compute_features(pose) ==
    IF pose.nkps <= 24 THEN None
    ELSE IF pose.score < 2 THEN None
    ELSE [theta    |-> Abs(pose.tilt),
          ratio    |-> (100 * pose.bh) \div Max(1, pose.bw),
          hip_y    |-> pose.hip_cy,
          h_person |-> pose.bh]

(* fps = max(self.infer_fps, 1.0) and n_X = int(cfg.T_X_sec * fps) *)
Fps == Max(infer_fps, 1)
n_pose == (T_pose_sec * Fps) \div 10
n_drop == (T_drop_sec * Fps) \div 10
n_still == (T_still_sec * Fps) \div 10

(* deque(maxlen=int(max(3, (T_pose + T_still + T_drop) * fps + 5))) *)
HistMaxLen(fps) == Max(3, ((T_pose_sec + T_still_sec + T_drop_sec) * fps + 50) \div 10)

(* deque.append on the bounded history: the oldest entry falls out *)
DequeAppend(h, f) ==
    IF Len(h) >= HistMaxLen(infer_fps) THEN Append(Tail(h), f) ELSE Append(h, f)

(* faulty variant: the cooldown branch returns without appending the features *)
CooldownHistory_NoAppend(f) == history

(* the history after the cooldown branch of update *)
CooldownHistory(f) == IF f # None THEN DequeAppend(history, f) ELSE history

(* faulty variant: update without the cooldown guard *)
InCooldown_Never(t) == FALSE

(* faulty variant: the guard written with <= instead of < *)
InCooldown_Inclusive(t) == t <= cooldown_until

(* the cooldown guard of update *)
InCooldown(t) == t < cooldown_until

(* A: posture sustained over the last n_pose entries *)
Collapsed(f) == f.theta > angle_deg_th \/ f.ratio < ratio_th
PredA(h) ==
    /\ Len(h) >= n_pose
    /\ LET last == LastK(h, n_pose)
       IN \A i \in 1..Len(last) : Collapsed(last[i])

(* faulty variant: the minimum taken over the whole window, current entry *)
(* included                                                               *)
HipDrop_InclCurrent(h) ==
    IF Len(h) >= 2
    THEN LET window == LastK(h, Max(2, Min(Len(h), n_drop + 1)))
             cur == window[Len(window)]
             all_min == CHOOSE m \in {window[i].hip_y : i \in 1..Len(window)} :
                          \A i \in 1..Len(window) : m <= window[i].hip_y
         IN cur.hip_y - all_min
    ELSE 0

(* B: hip drop within the last T_drop window *)
HipDrop(h) ==
    IF Len(h) >= 2
    THEN LET window == LastK(h, Max(2, Min(Len(h), n_drop + 1)))
             cur == window[Len(window)]
             prior_min == CHOOSE m \in {window[i].hip_y : i \in 1..(Len(window) - 1)} :
                            \A i \in 1..(Len(window) - 1) : m <= window[i].hip_y
         IN cur.hip_y - prior_min
    ELSE 0
PredB(h) == Len(h) >= 2 /\ HipDrop(h) > hip_drop_px_th

(* faulty variant: the size gate left out *)
PredD_Always(h) == TRUE

(* D: minimum person height of the current entry *)
PredD(h) == h[Len(h)].h_person >= min_person_height_px

(* seg and diffs of the await_still branch *)
StillSeg(h, since) == LastK(LastK(h, since), n_still + 1)
Diffs(seg) == [i \in 1..(Len(seg) - 1) |-> Abs(seg[i + 1].hip_y - seg[i].hip_y)]

(* the k-th smallest (k from 0) element of a non-empty sequence *)
KthSmallest(d, k) ==
    CHOOSE v \in {d[i] : i \in 1..Len(d)} :
        /\ Cardinality({i \in 1..Len(d) : d[i] < v}) <= k
        /\ Cardinality({i \in 1..Len(d) : d[i] <= v}) > k

(* 5 * np.percentile(d, 80), linear interpolation between order statistics *)
Q80x5(d) ==
    LET pos5 == 4 * (Len(d) - 1)
        lo == pos5 \div 5
        r == pos5 % 5
        a == KthSmallest(d, lo)
        b == IF r = 0 THEN a ELSE KthSmallest(d, lo + 1)
    IN 5 * a + r * (b - a)

FracOk(d) == Cardinality({i \in 1..Len(d) : d[i] <= v_still_px_per_frame})

(* C over a segment: q80 < 1.2 * v_still and frac_ok >= 0.7; true on no diffs *)
StillOver(seg) ==
    LET d == Diffs(seg)
    IN IF Len(d) > 0
       THEN Q80x5(d) < 6 * v_still_px_per_frame /\ 10 * FracOk(d) >= 7 * Len(d)
       ELSE TRUE
StillScore(seg) ==
    LET d == Diffs(seg) IN IF Len(d) > 0 THEN Q80x5(d) ELSE 0
PredC(h, since) == StillOver(StillSeg(h, since))

(* the values latched on idle -> await_still *)
ThetaMax(h) == CHOOSE m \in {h[i].theta : i \in 1..Len(h)} : \A i \in 1..Len(h) : h[i].theta <= m
RatioMin(h) == CHOOSE m \in {h[i].ratio : i \in 1..Len(h)} : \A i \in 1..Len(h) : h[i].ratio >= m
LatchDeadline(t) == t + T_still_sec + C_grace_sec

(* faulty variants: a trigger that starts no cooldown; a snapshot recomputed *)
(* at trigger time                                                        *)
CooldownAfter_None(t) == t
Snapshot_Recomputed(h, since) ==
    [theta_max   |-> ThetaMax(h),
     ratio_min   |-> RatioMin(h),
     hip_drop    |-> HipDrop(h),
     still_score |-> StillScore(StillSeg(h, since))]

(* the trigger decision of the await_still branch, and what a trigger sets *)
ShouldTrigger(h, since) == since >= n_still /\ PredC(h, since) /\ PredD(h)
CooldownAfter(t) == t + cooldown_sec
Snapshot(h, since) ==
    [theta_max   |-> pre_theta_max,
     ratio_min   |-> pre_ratio_min,
     hip_drop    |-> pre_hip_drop,
     still_score |-> StillScore(StillSeg(h, since))]

NoTrigger == [triggered |-> FALSE, snap |-> None]

---------------------------------------------------------------------------
(* FallLogicFSM.update(pose) with time.time() returning t.  pose = None   *)
(* is the estimator finding nobody.                                       *)
Update(pose, t) ==
    LET f == IF pose = None THEN None ELSE compute_features(pose)
    IN
    /\ now' = t
    /\ calls' = calls + 1
    /\ ft' = f
    /\ UNCHANGED infer_fps
    /\ IF InCooldown(t) THEN
          /\ history' = CooldownHistory(f)
          /\ ret' = NoTrigger
          /\ fed_since_latch' = IF f # None /\ state = "await_still"
                                 THEN fed_since_latch + 1 ELSE fed_since_latch
          /\ UNCHANGED <<cooldown_until, state, prelim_hist_len, still_deadline,
                         pre_theta_max, pre_ratio_min, pre_hip_drop,
                         latch_time, trig_time, triggers>>
       ELSE IF f = None THEN
          /\ ret' = NoTrigger
          /\ UNCHANGED <<history, cooldown_until, state, prelim_hist_len, still_deadline,
                         pre_theta_max, pre_ratio_min, pre_hip_drop,
                         latch_time, trig_time, triggers, fed_since_latch>>
       ELSE
          LET h == DequeAppend(history, f)
              since == Len(h) - prelim_hist_len
          IN
          /\ history' = h
          /\ IF state = "idle" THEN
                IF PredA(h) /\ PredB(h) /\ PredD(h) THEN
                   /\ state' = "await_still"
                   /\ prelim_hist_len' = Len(h)
                   /\ still_deadline' = LatchDeadline(t)
                   /\ pre_theta_max' = ThetaMax(h)
                   /\ pre_ratio_min' = RatioMin(h)
                   /\ pre_hip_drop' = HipDrop(h)
                   /\ ret' = NoTrigger
                   /\ latch_time' = t
                   /\ fed_since_latch' = 0
                   /\ UNCHANGED <<cooldown_until, trig_time, triggers>>
                ELSE
                   /\ ret' = NoTrigger
                   /\ UNCHANGED <<cooldown_until, state, prelim_hist_len, still_deadline,
                                  pre_theta_max, pre_ratio_min, pre_hip_drop,
                                  latch_time, trig_time, triggers, fed_since_latch>>
             ELSE
                IF ShouldTrigger(h, since) THEN
                   /\ cooldown_until' = CooldownAfter(t)
                   /\ state' = "idle"
                   /\ ret' = [triggered |-> TRUE, snap |-> Snapshot(h, since)]
                   /\ trig_time' = t
                   /\ triggers' = triggers + 1
                   /\ fed_since_latch' = fed_since_latch + 1
                   /\ UNCHANGED <<prelim_hist_len, still_deadline, pre_theta_max,
                                  pre_ratio_min, pre_hip_drop, latch_time>>
                ELSE
                   /\ state' = IF t > still_deadline THEN "idle" ELSE state
                   /\ ret' = NoTrigger
                   /\ fed_since_latch' = fed_since_latch + 1
                   /\ UNCHANGED <<cooldown_until, prelim_hist_len, still_deadline,
                                  pre_theta_max, pre_ratio_min, pre_hip_drop,
                                  latch_time, trig_time, triggers>>

(* FallLogicFSM.__init__ *)
InitFSM(fps) ==
    /\ infer_fps = fps
    /\ history = <<>>
    /\ cooldown_until = 0
    /\ state = "idle"
    /\ prelim_hist_len = 0
    /\ still_deadline = 0
    /\ pre_theta_max = 0
    /\ pre_ratio_min = 1000000000
    /\ pre_hip_drop = 0
    /\ now = 0
    /\ ft = None
    /\ ret = NoTrigger
    /\ calls = 0
    /\ latch_time = Never
    /\ trig_time = Never
    /\ triggers = 0
    /\ fed_since_latch = 0

---------------------------------------------------------------------------
(* CaptureThread (src/hokudai_fall/capture.py).  A FrameRecord is reduced  *)
(* to its index; CameraFps is the cfg.camera.fps of the runs that do not   *)
(* vary it.                                                                *)
CameraFps == 1

(* deque(maxlen=int(cfg.fps * ring_seconds)), ring_seconds as main passes *)
(* it: max(6.0, pre_seconds + post_seconds + 2)                           *)
RingMaxLen == (camera_fps * Max(60, pre_seconds + post_seconds + 20)) \div 10

(* CaptureThread.__init__ at camera fps f, the thread in position th *)
CaptureConstructed(f, th) ==
    /\ camera_fps = f
    /\ cap_index = 0
    /\ ring = <<>>
    /\ cap_thread = th
    /\ cap_stop_flag = FALSE
    /\ read_failures = 0
    /\ cap_released = FALSE
    /\ stop_pc = "idle"

(* the capture thread constructed and started *)
InitCapture == CaptureConstructed(CameraFps, "running")

(* deque.append on the ring: at maxlen the oldest record falls out, and a *)
(* deque of maxlen 0 keeps nothing                                        *)
RingAppend(r, rec) ==
    LET a == Append(r, rec) IN IF Len(a) > RingMaxLen THEN Tail(a) ELSE a

(* one successful read of CaptureThread._run *)
CaptureFrame ==
    /\ cap_thread = "running"
    /\ ~cap_stop_flag
    /\ cap_index' = cap_index + 1
    /\ ring' = RingAppend(ring, [index |-> cap_index + 1])
    /\ UNCHANGED <<camera_fps, cap_thread, cap_stop_flag, read_failures>>
    /\ UNCHANGED <<cap_released, stop_pc>>

(* faulty variant: a failed read ends the thread *)
AfterFailedRead_Exit == "exited"

(* where _run continues after cap.read() returned ok = False: it sleeps   *)
(* 0.3 s and goes back to the loop test                                   *)
AfterFailedRead == "running"

(* one failed read of CaptureThread._run *)
CaptureFail ==
    /\ cap_thread = "running"
    /\ ~cap_stop_flag
    /\ read_failures' = read_failures + 1
    /\ cap_thread' = AfterFailedRead
    /\ UNCHANGED <<camera_fps, cap_index, ring, cap_stop_flag>>
    /\ UNCHANGED <<cap_released, stop_pc>>

(* _run and stop step by step.  "reading" is the thread inside cap.read() *)
(* after it found the flag clear; "running" is the thread anywhere else   *)
(* in its loop.                                                           *)

(* _run finds the flag clear and calls cap.read() *)
CaptureEnterRead ==
    /\ cap_thread = "running"
    /\ ~cap_stop_flag
    /\ cap_thread' = "reading"
    /\ UNCHANGED <<cap_index, ring, camera_fps, cap_stop_flag, read_failures,
                   cap_released, stop_pc>>

(* cap.read() returns, at once or after having blocked: a frame is        *)
(* appended (ok) or the thread backs off (not ok); the flag is not looked *)
(* at before the next loop test                                           *)
CaptureReadReturn(ok) ==
    /\ cap_thread = "reading"
    /\ IF ok
       THEN /\ cap_index' = cap_index + 1
            /\ ring' = RingAppend(ring, [index |-> cap_index + 1])
            /\ cap_thread' = "running"
            /\ UNCHANGED read_failures
       ELSE /\ read_failures' = read_failures + 1
            /\ cap_thread' = AfterFailedRead
            /\ UNCHANGED <<cap_index, ring>>
    /\ UNCHANGED <<camera_fps, cap_stop_flag, cap_released, stop_pc>>

(* _run finds the flag set and returns *)
CaptureLeave ==
    /\ cap_thread = "running"
    /\ cap_stop_flag
    /\ cap_thread' = "exited"
    /\ UNCHANGED <<cap_index, ring, camera_fps, cap_stop_flag, read_failures,
                   cap_released, stop_pc>>

(* stop: self.stop_flag.set() *)
StopSignal ==
    /\ stop_pc = "idle"
    /\ cap_stop_flag' = TRUE
    /\ stop_pc' = "joining"
    /\ UNCHANGED <<cap_index, ring, camera_fps, cap_thread, read_failures, cap_released>>

(* self.thread.join(timeout=2.0) returns: the thread has ended, or 2 s    *)
(* have passed.  Outside cap.read() the thread reaches its loop test      *)
(* within its sleep of at most 1 s, so the 2 s pass only over a read that *)
(* blocks.                                                                *)
JoinReturns == cap_thread = "exited" \/ cap_thread = "reading"

(* stop: the join returns *)
StopJoin ==
    /\ stop_pc = "joining"
    /\ JoinReturns
    /\ stop_pc' = "releasing"
    /\ UNCHANGED <<cap_index, ring, camera_fps, cap_thread, cap_stop_flag,
                   read_failures, cap_released>>

(* stop: self.cap.release() *)
StopRelease ==
    /\ stop_pc = "releasing"
    /\ cap_released' = TRUE
    /\ stop_pc' = "done"
    /\ UNCHANGED <<cap_index, ring, camera_fps, cap_thread, cap_stop_flag, read_failures>>

(* CaptureThread.latest: ring[-1], or None on an empty ring *)
latest == IF Len(ring) = 0 THEN None ELSE ring[Len(ring)]

---------------------------------------------------------------------------
(* enforce_retention (src/hokudai_fall/utils.py).  An event directory is  *)
(* [id, mtime, size, stuck]: mtime in days, size in percent of the disk,  *)
(* stuck when shutil.rmtree(ignore_errors=True) cannot remove it.         *)
retention_days == 30
min_free_pct == 5

(* the day on which the sweep runs, and cutoff = now - retention_days *)
RetNow == 40
cutoff == RetNow - retention_days

RECURSIVE SumSize(_)
SumSize(S) ==
    IF S = {} THEN 0
    ELSE LET d == CHOOSE x \in S : TRUE IN d.size + SumSize(S \ {d})

(* faulty variant: the newest directories are taken for the oldest *)
Oldest_Newest(S) == {d \in S : \A x \in S : x.mtime <= d.mtime}

(* the directories list_event_dirs may put first: those of least mtime *)
Oldest(S) == {d \in S : \A x \in S : d.mtime <= x.mtime}

(* the record kept of a deletion *)
Deleted(d, why, S) ==
    [id |-> d.id, mtime |-> d.mtime, by |-> why, free_before |-> free_pct,
     oldest |-> \A x \in S : d.mtime <= x.mtime]

(* enforce_retention up to its while loop: return if base_dir is missing, *)
(* else remove every directory older than the cutoff that can be removed  *)
RetBegin ==
    /\ ret_pc = "idle"
    /\ IF ~disk_env.base_exists
       THEN /\ ret_pc' = "returned"
            /\ ret_exit' = "no_base_dir"
            /\ UNCHANGED <<dirs, free_pct, removed>>
       ELSE LET gone == {d \in dirs : d.mtime < cutoff /\ ~d.stuck}
            IN /\ dirs' = dirs \ gone
               /\ free_pct' = free_pct + SumSize(gone)
               /\ removed' = removed \cup {Deleted(d, "age", dirs) : d \in gone}
               /\ ret_pc' = "pressure"
               /\ UNCHANGED ret_exit
    /\ UNCHANGED disk_env

(* one pass of the while loop of enforce_retention.  When rmtree cannot   *)
(* remove events[0] it raises nothing (ignore_errors=True): the pass      *)
(* leaves every variable as it was and the loop starts its next pass in   *)
(* the same state.                                                        *)
RetPressure ==
    /\ ret_pc = "pressure"
    /\ IF ~disk_env.usage_ok
       THEN /\ ret_pc' = "returned"
            /\ ret_exit' = "usage_error"
            /\ UNCHANGED <<dirs, free_pct, removed>>
       ELSE IF free_pct >= min_free_pct
       THEN /\ ret_pc' = "returned"
            /\ ret_exit' = "free_ok"
            /\ UNCHANGED <<dirs, free_pct, removed>>
       ELSE IF dirs = {}
       THEN /\ ret_pc' = "returned"
            /\ ret_exit' = "no_events"
            /\ UNCHANGED <<dirs, free_pct, removed>>
       ELSE \E d \in Oldest(dirs) :
              IF d.stuck
              THEN UNCHANGED <<dirs, free_pct, removed, ret_pc, ret_exit>>
              ELSE /\ dirs' = dirs \ {d}
                   /\ free_pct' = free_pct + d.size
                   /\ removed' = removed \cup {Deleted(d, "pressure", dirs)}
                   /\ UNCHANGED <<ret_pc, ret_exit>>
    /\ UNCHANGED disk_env


InitSaver ==
    /\ queue = <<>>
    /\ stop_flag = FALSE
    /\ worker = "wait"
    /\ cur_ev = None
    /\ submitted = <<>>
    /\ taken = <<>>
    /\ outcomes = <<>>
    /\ at_stop = {}

(* self.queue.append(ev) *)
Enqueue(q, ev) == Append(q, ev)

(* SaverWorker.submit *)
submit(ev) ==
    /\ queue' = Enqueue(queue, ev)
    /\ submitted' = Append(submitted, ev.event_id)
    /\ UNCHANGED <<stop_flag, worker, cur_ev, taken, outcomes, at_stop>>

(* SaverWorker.stop: the flag is set under the condition variable; the    *)
(* join that follows waits at most 2 s and changes nothing.               *)
stop ==
    /\ ~stop_flag
    /\ stop_flag' = TRUE
    /\ at_stop' = {queue[i].event_id : i \in 1..Len(queue)}
    /\ UNCHANGED <<queue, worker, cur_ev, submitted, taken, outcomes>>

(* faulty variant: the newest event is taken first *)
PopFront_Newest(q) == [ev |-> q[Len(q)], rest |-> SubSeq(q, 1, Len(q) - 1)]

(* ev = self.queue.pop(0) *)
PopFront(q) == [ev |-> Head(q), rest |-> Tail(q)]

(* faulty variant: the worker returns on the flag alone *)
MayExit_OnFlagAlone == stop_flag

(* if self.stop_flag and not self.queue: return *)
MayExit == stop_flag /\ queue = <<>>

(* where _run continues after _save_event returned (ok) or raised an      *)
(* Exception, which _run catches and logs                                 *)
AfterSave(ok) == "wait"

(* _run leaves its wait loop because the queue is non-empty or the flag   *)
(* is set, and returns                                                    *)
WorkerExit ==
    /\ worker = "wait"
    /\ queue # <<>> \/ stop_flag
    /\ MayExit
    /\ worker' = "exited"
    /\ UNCHANGED <<queue, stop_flag, cur_ev, submitted, taken, outcomes, at_stop>>
    /\ UNCHANGED disk

(* _run leaves its wait loop and pops the next event; _save_event is      *)
(* about to call enforce_retention                                        *)
WorkerTake ==
    /\ worker = "wait"
    /\ queue # <<>> \/ stop_flag
    /\ ~MayExit
    /\ LET p == PopFront(queue)
       IN /\ cur_ev' = p.ev
          /\ queue' = p.rest
          /\ taken' = Append(taken, p.ev.event_id)
    /\ worker' = "save"
    /\ ret_pc' = "idle"
    /\ ret_exit' = "none"
    /\ UNCHANGED <<stop_flag, submitted, outcomes, at_stop>>
    /\ UNCHANGED <<dirs, free_pct, removed, disk_env>>

(* a step of the enforce_retention call that opens _save_event *)
WorkerRetention ==
    /\ worker = "save"
    /\ RetBegin \/ RetPressure
    /\ UNCHANGED saver

(* the directory event_dir names for the event, made by ensure_dir and    *)
(* filled with the frames, which take one percent of the disk             *)
SavedDir(ev) == [id |-> MaxDirs + ev.event_id, mtime |-> RetNow, size |-> 1, stuck |-> FALSE]

(* after enforce_retention returned, _save_event(ev) makes the event's    *)
(* directory, writes its files and returns (ok), or raises before it made *)
(* the directory (not ok)                                                 *)
WorkerSave(ok) ==
    /\ worker = "save"
    /\ ret_pc = "returned"
    /\ outcomes' = Append(outcomes, <<cur_ev.event_id, ok>>)
    /\ cur_ev' = None
    /\ worker' = AfterSave(ok)
    /\ dirs' = IF ok THEN dirs \cup {SavedDir(cur_ev)} ELSE dirs
    /\ disk_env' = IF ok THEN [disk_env EXCEPT !.base_exists = TRUE] ELSE disk_env
    /\ UNCHANGED <<queue, stop_flag, submitted, taken, at_stop>>
    /\ free_pct' = IF ok THEN Max(0, free_pct - SavedDir(cur_ev).size) ELSE free_pct
    /\ UNCHANGED <<ret_pc, ret_exit, removed>>

Worker == WorkerExit \/ WorkerTake \/ WorkerRetention \/ \E ok \in BOOLEAN : WorkerSave(ok)

---------------------------------------------------------------------------
(* The inference loop of main (src/hokudai_fall/main.py).  An entry of    *)
(* hist is the pair (lr, pose); the field tick is a history value naming  *)
(* the tick that appended it.                                             *)
InitMain(pre, post) ==
    /\ pre_seconds = pre
    /\ post_seconds = post
    /\ clock = 0
    /\ ticks = 0
    /\ hist = <<>>
    /\ collecting = None
    /\ seq = 1

(* main at the given position with nothing returned yet, in the           *)
(* environment e                                                          *)
LifeAt(pc, e) ==
    /\ main_pc = pc
    /\ exit_code = None
    /\ env = e
    /\ shutdown_log = <<>>

(* an environment in which every step of the initialisation succeeds *)
GoodEnv ==
    [primary_ok |-> TRUE, example_exists |-> FALSE, example_ok |-> FALSE,
     camera_ok |-> TRUE, backend |-> "mediapipe", estimator_ok |-> TRUE]

(* base_dir holding the event directories d with f percent of the disk   *)
(* free, in the environment e, and no retention sweep running             *)
DiskAt(d, f, e) ==
    /\ dirs = d
    /\ free_pct = f
    /\ ret_pc = "idle"
    /\ ret_exit = "none"
    /\ removed = {}
    /\ disk_env = e

(* base_dir exists and its free space can be queried *)
GoodDisk == [base_exists |-> TRUE, usage_ok |-> TRUE]

(* deque(maxlen=int(cfg.saver.pre_seconds * infer_fps * 2 + 20)) *)
HistCap == (pre_seconds * infer_fps * 2 + 200) \div 10
HistAppend(h, e) == IF Len(h) >= HistCap THEN Append(Tail(h), e) ELSE Append(h, e)

need_pre == (pre_seconds * infer_fps) \div 10
need_post == (post_seconds * infer_fps) \div 10

(* int(x / d) of Python: truncation towards zero *)
TruncDiv(x, d) == IF x >= 0 THEN x \div d ELSE -((-x) \div d)

(* int((fr.index - t0[1]) * (1000.0 / max(1, infer_fps))) *)
t_rel_ms(index, t0_index) == TruncDiv((index - t0_index) * 1000, Max(1, infer_fps))

(* faulty variant: the collected frames put before the pre frames *)
EventFrames_PostFirst(c, post) == post \o c.pre

(* collecting["pre"] + collecting["frames"] *)
EventFrames(c, post) == c.pre \o post

(* the CompletedEvent built when enough frames are collected; n_pre and   *)
(* trig_tick are history values: the length of the pre list and the tick  *)
(* on which the FSM triggered                                             *)
BuildEvent(c, post) ==
    LET all == EventFrames(c, post)
    IN [event_id  |-> c.event_id,
        frames    |-> [i \in 1..Len(all) |->
                         [frame    |-> all[i].lr,
                          t_rel_ms |-> t_rel_ms(all[i].lr.index, c.t0_index),
                          pose     |-> all[i].pose,
                          tick     |-> all[i].tick]],
        features  |-> c.features,
        n_pre     |-> Len(c.pre),
        trig_tick |-> c.trig_tick]

(* the collecting record built on a trigger, after hist was appended *)
StartCollecting(h, lr, snap, tick) ==
    [event_id  |-> seq,
     t0_index  |-> lr.index,
     pre       |-> LastK(h, need_pre),
     frames    |-> <<>>,
     need_post |-> need_post,
     features  |-> snap,
     trig_tick |-> tick]

(* faulty variant: the FSM is consulted even when the estimator found     *)
(* nobody                                                                 *)
CallsFsm_AnyPose(coll, pose) == coll = None

(* if collecting is None and pose is not None *)
CallsFsm(coll, pose) == coll = None /\ pose # None

(* the pacing of the loop: one tick every 1 / max(1, infer_fps) seconds *)
TickPeriod == 10 \div Max(1, infer_fps)

(* One iteration of the while loop with a frame available: the pose is    *)
(* appended to hist, a running collection takes the frame and is          *)
(* submitted when complete, and then, if nothing is being collected, the  *)
(* FSM is consulted and a trigger starts a collection.                    *)
MainTick(pose) ==
    /\ main_pc = "loop"
    /\ latest # None
    /\ LET lr == latest
           t == clock + TickPeriod
           entry == [lr |-> lr, pose |-> pose, tick |-> ticks + 1]
           h == HistAppend(hist, entry)
           post == IF collecting # None THEN Append(collecting.frames, entry) ELSE <<>>
           done == collecting # None /\ Len(post) >= collecting.need_post
           coll == IF collecting = None \/ done THEN None
                   ELSE [collecting EXCEPT !.frames = post]
       IN /\ clock' = t
          /\ ticks' = ticks + 1
          /\ hist' = h
          /\ IF done THEN submit(BuildEvent(collecting, post)) ELSE UNCHANGED saver
          /\ IF CallsFsm(coll, pose)
             THEN /\ Update(pose, t)
                  /\ IF ret'.triggered /\ ret'.snap # None
                     THEN /\ collecting' = StartCollecting(h, lr, ret'.snap, ticks + 1)
                          /\ seq' = seq + 1
                     ELSE /\ collecting' = coll
                          /\ seq' = seq
             ELSE /\ collecting' = coll
                  /\ seq' = seq
                  /\ UNCHANGED <<fsm, obs>>
    /\ UNCHANGED <<pre_seconds, post_seconds, capture, life, disk>>

---------------------------------------------------------------------------
(* Start and end of main.  env says what the initialisation finds: whether *)
(* the configured file loads, whether config.example.yaml exists and      *)
(* loads, whether the camera opens, which pose backend is configured and  *)
(* whether its estimator can be constructed.                              *)
ExitOk == 0
ExitConfig == 2
ExitCamera == 3
ExitBackend == 101

(* the outcome of main.py:58-93: main's next position, the value it       *)
(* returns (None if it does not return here) and whether cap.start() ran  *)
(* to the point of starting the thread                                    *)
InitOutcome(e) ==
    IF ~e.primary_ok /\ ~e.example_exists
    THEN [pc |-> "returned", code |-> ExitConfig, started |-> FALSE]
    ELSE IF ~e.primary_ok /\ ~e.example_ok
    THEN [pc |-> "raised", code |-> None, started |-> FALSE]
    ELSE IF ~e.camera_ok
    THEN [pc |-> "returned", code |-> ExitCamera, started |-> FALSE]
    ELSE IF e.backend # "mediapipe" \/ ~e.estimator_ok
    THEN [pc |-> "returned", code |-> ExitBackend, started |-> TRUE]
    ELSE [pc |-> "loop", code |-> None, started |-> TRUE]

(* main from its first line to the while loop or to an early return *)
MainStart ==
    /\ main_pc = "start"
    /\ LET o == InitOutcome(env)
       IN /\ main_pc' = o.pc
          /\ exit_code' = o.code
          /\ cap_thread' = IF o.started THEN "running" ELSE cap_thread
    /\ UNCHANGED <<env, shutdown_log, fsm, obs, main, saver, disk,
                   cap_index, ring, camera_fps, cap_stop_flag, read_failures,
                   cap_released, stop_pc>>

(* KeyboardInterrupt (or the display's quit key) ends the loop: control   *)
(* passes to the finally block; a collecting record is left as it is      *)
MainInterrupt ==
    /\ main_pc = "loop"
    /\ main_pc' = "finally"
    /\ UNCHANGED <<exit_code, env, shutdown_log, fsm, obs, main, capture, saver, disk>>

(* faulty variant: the capture thread is stopped first *)
FinallyCalls_CaptureFirst == <<"capture.stop", "saver.stop">>

(* the stop calls of the finally block, in program order *)
FinallyCalls == <<"saver.stop", "capture.stop">>

(* CaptureThread.stop as one step: the flag is set, the thread joined for *)
(* at most 2 s, within which it has left its loop or not, and the device  *)
(* released                                                               *)
CaptureStop ==
    /\ cap_stop_flag' = TRUE
    /\ cap_thread' \in {cap_thread, "exited"}
    /\ cap_released' = TRUE
    /\ stop_pc' = "done"
    /\ UNCHANGED <<cap_index, ring, camera_fps, read_failures>>

(* the next stop call of the finally block; after the last one main       *)
(* returns 0                                                              *)
MainFinally ==
    /\ main_pc = "finally"
    /\ LET call == FinallyCalls[Len(shutdown_log) + 1]
           last == Len(shutdown_log) + 1 = Len(FinallyCalls)
       IN /\ shutdown_log' = Append(shutdown_log, call)
          /\ IF call = "saver.stop"
             THEN stop /\ UNCHANGED capture
             ELSE CaptureStop /\ UNCHANGED saver
          /\ main_pc' = IF last THEN "returned" ELSE "finally"
          /\ exit_code' = IF last THEN ExitOk ELSE exit_code
    /\ UNCHANGED <<env, fsm, obs, main, disk>>

---------------------------------------------------------------------------
(* The caller: each call reads a clock value later than the last one and  *)
(* passes whatever the estimator produced.                                *)
Poses == {PoseUpright, PoseLying, PoseLeaning, PoseSmall, PoseFaint, PoseTrunc, None}
Gaps == {5, 45}

(* the FSM driven alone: the loop, the capture thread and the saver rest *)
Running == LifeAt("loop", GoodEnv) /\ DiskAt({}, 100, GoodDisk)
Resting == InitMain(DefaultPre, DefaultPost) /\ InitCapture /\ InitSaver /\ Running

Init == InitFSM(SlowFps) /\ Resting
Next ==
    /\ \E pose \in Poses, g \in Gaps : calls < MaxCalls /\ Update(pose, now + g)
    /\ UNCHANGED <<main, capture, saver, life, disk>>
Spec == Init /\ [][Next]_vars

(* Longer runs of a subject who is either upright or lying. *)
FallPoses == {PoseUpright, PoseLying, None}
NextLong ==
    /\ \E pose \in FallPoses, g \in Gaps : calls < MaxCallsLong /\ Update(pose, now + g)
    /\ UNCHANGED <<main, capture, saver, life, disk>>
SpecLong == Init /\ [][NextLong]_vars

(* Scenario 1 of the end-to-end tests at infer_fps = 10, one call every   *)
(* 0.1 s: 10 upright ticks, 4 falling ticks (theta 10 -> 80, hip_y 400 -> *)
(* 460, bbox either still tall or already wide), 12 still collapsed ticks *)
(* (hip_y 460 or 460.3).  k is the number of ticks already fed.           *)
ScenarioFps == 10
Scenario1Poses(k) ==
    IF k < 10 THEN {PoseUpright}
    ELSE IF k < 14
    THEN {MkPose(33, 9, 10 + ((k - 10) * 70) \div 3, 4000 + (k - 10) * 200, w, 300) :
            w \in {120, 600}}
    ELSE IF k < 26
    THEN {MkPose(33, 9, 80, y, 600, 300) : y \in {4600, 4603}}
    ELSE {}
Scenario1Done == calls = 26

InitScenario1 == InitFSM(ScenarioFps) /\ Resting
NextScenario1 ==
    /\ \E pose \in Scenario1Poses(calls) : Update(pose, now + 1)
    /\ UNCHANGED <<main, capture, saver, life, disk>>
SpecScenario1 == InitScenario1 /\ [][NextScenario1]_vars

(* The whole loop: the capture thread delivers frames at its own pace     *)
(* while the loop ticks; the subject stands on the first tick and lies on *)
(* the floor afterwards, and the estimator may miss them (no pose, or a   *)
(* pose too faint for features) on any later tick.  pre_seconds and       *)
(* post_seconds are each 0 or 1 s.                                        *)
SaverSeconds == {0, 10}
MainPoses(k) == IF k = 0 THEN {PoseUpright} ELSE {PoseLying, PoseFaint, None}

InitMainLoop ==
    /\ InitFSM(SlowFps)
    /\ \E pre \in SaverSeconds, post \in SaverSeconds : InitMain(pre, post)
    /\ InitCapture
    /\ InitSaver
    /\ Running
CaptureStep ==
    /\ cap_index < MaxFrames
    /\ CaptureFrame
    /\ UNCHANGED <<fsm, obs, main, saver, life, disk>>
TickStep == \E pose \in MainPoses(ticks) : ticks < MaxTicks /\ MainTick(pose)
NextMainLoop == CaptureStep \/ TickStep
SpecMainLoop == InitMainLoop /\ [][NextMainLoop]_vars

(* The capture thread under a loop whose estimator finds nobody: reads    *)
(* succeed or fail, and the loop samples latest() on its ticks.  The      *)
(* camera fps is 0 (a value start() takes as "leave the device's rate")    *)
(* or 1.                                                                  *)
CameraFpsChoices == {0, 1}
InitCaptureLoop ==
    /\ InitFSM(SlowFps)
    /\ InitMain(DefaultPre, DefaultPost)
    /\ \E f \in CameraFpsChoices : CaptureConstructed(f, "running")
    /\ InitSaver
    /\ Running
ReadOkStep ==
    /\ cap_index < MaxCaptured
    /\ CaptureFrame
    /\ UNCHANGED <<fsm, obs, main, saver, life, disk>>
ReadFailStep ==
    /\ read_failures < MaxFailures
    /\ CaptureFail
    /\ UNCHANGED <<fsm, obs, main, saver, life, disk>>
PollStep == ticks < MaxTicks /\ MainTick(None)
NextCapture == ReadOkStep \/ ReadFailStep \/ PollStep
SpecCapture == InitCaptureLoop /\ [][NextCapture]_vars

(* stop() called on a capture thread that is running: the thread reads,  *)
(* successfully or not, promptly or not, while stop goes through its      *)
(* three statements.                                                      *)
InitStop ==
    /\ InitFSM(SlowFps)
    /\ InitMain(DefaultPre, DefaultPost)
    /\ \E f \in CameraFpsChoices : CaptureConstructed(f, "running")
    /\ InitSaver
    /\ Running
EnterReadStep ==
    /\ cap_index < MaxCaptured
    /\ read_failures < MaxFailures
    /\ CaptureEnterRead
    /\ UNCHANGED <<fsm, obs, main, saver, life, disk>>
ReadReturnStep ==
    /\ \E ok \in BOOLEAN : CaptureReadReturn(ok)
    /\ UNCHANGED <<fsm, obs, main, saver, life, disk>>
LeaveStep == CaptureLeave /\ UNCHANGED <<fsm, obs, main, saver, life, disk>>
StopSignalStep == StopSignal /\ UNCHANGED <<fsm, obs, main, saver, life, disk>>
StopJoinStep == StopJoin /\ UNCHANGED <<fsm, obs, main, saver, life, disk>>
StopReleaseStep == StopRelease /\ UNCHANGED <<fsm, obs, main, saver, life, disk>>
NextStop ==
    \/ EnterReadStep \/ ReadReturnStep \/ LeaveStep
    \/ StopSignalStep \/ StopJoinStep \/ StopReleaseStep
SpecStop == InitStop /\ [][NextStop]_vars

(* The life of main: start in any environment, loop while the capture    *)
(* thread delivers frames, interrupt at any tick, finally block.  The     *)
(* subject stands on the first tick and lies afterwards; the estimator    *)
(* may find nobody.  pre_seconds = post_seconds = 1 s.                    *)
Envs ==
    {e \in [primary_ok : BOOLEAN, example_exists : BOOLEAN, example_ok : BOOLEAN,
            camera_ok : BOOLEAN, backend : {"mediapipe", "tflite"},
            estimator_ok : BOOLEAN] :
        /\ e.example_ok => e.example_exists
        /\ e.estimator_ok => e.backend = "mediapipe"}
LifePoses(k) == IF k = 0 THEN {PoseUpright} ELSE {PoseLying, None}

InitLifecycle ==
    /\ InitFSM(SlowFps)
    /\ InitMain(10, 10)
    /\ CaptureConstructed(CameraFps, "unstarted")
    /\ InitSaver
    /\ \E e \in Envs : LifeAt("start", e)
    /\ DiskAt({}, 100, GoodDisk)
LifeTickStep == \E pose \in LifePoses(ticks) : ticks < MaxTicks /\ MainTick(pose)
NextLifecycle == MainStart \/ CaptureStep \/ LifeTickStep \/ MainInterrupt \/ MainFinally
SpecLifecycle == InitLifecycle /\ [][NextLifecycle]_vars

(* Scenario 6 of the end-to-end tests: infer_fps = 10, pre_seconds = 1,   *)
(* post_seconds = 2, a subject who stands for 5 ticks, falls as in        *)
(* scenario 1 and stays down (a fall this early is confirmed before the   *)
(* history is full), and a camera that delivers 10 or 30 frames per       *)
(* second on time: between two ticks it appends camera_fps / infer_fps    *)
(* records.                                                               *)
ScenarioCameraFps == {10, 30}
Scenario6Poses(k) ==
    IF k < 9 THEN Scenario1Poses(k + 5) ELSE {MkPose(33, 9, 80, 4600, 600, 300)}
FramesPerTick == camera_fps \div Max(1, infer_fps)

InitScenario6 ==
    /\ InitFSM(ScenarioFps)
    /\ InitMain(10, 20)
    /\ \E f \in ScenarioCameraFps : CaptureConstructed(f, "running")
    /\ InitSaver
    /\ Running
CameraStep6 ==
    /\ cap_index < (ticks + 1) * FramesPerTick
    /\ CaptureFrame
    /\ UNCHANGED <<fsm, obs, main, saver, life, disk>>
TickStep6 ==
    /\ cap_index = (ticks + 1) * FramesPerTick
    /\ ticks < MaxScenarioTicks
    /\ \E pose \in Scenario6Poses(ticks) : MainTick(pose)
NextScenario6 == CameraStep6 \/ TickStep6
SpecScenario6 == InitScenario6 /\ [][NextScenario6]_vars

(* enforce_retention alone, on a base_dir with up to MaxDirs event        *)
(* directories: older than the cutoff (day 5) or within it (days 20, 25), *)
(* of no or some size, removable or not; the disk nearly full or not.     *)
DirAttrs == [mtime : {5, 20, 25}, size : {0, 2}, stuck : BOOLEAN]
FreeChoices == {1, 4, 6}
DiskEnvs == [base_exists : BOOLEAN, usage_ok : BOOLEAN]

InitRetention ==
    /\ InitFSM(SlowFps)
    /\ InitMain(DefaultPre, DefaultPost)
    /\ InitCapture
    /\ InitSaver
    /\ LifeAt("loop", GoodEnv)
    /\ \E a \in [1..MaxDirs -> DirAttrs \cup {None}], f \in FreeChoices, e \in DiskEnvs :
          DiskAt(IF e.base_exists
                 THEN {[id |-> i, mtime |-> a[i].mtime, size |-> a[i].size,
                        stuck |-> a[i].stuck] : i \in {j \in 1..MaxDirs : a[j] # None}}
                 ELSE {},
                 f, e)
RetBeginStep == RetBegin /\ UNCHANGED <<fsm, obs, main, capture, saver, life>>
RetPressureStep == RetPressure /\ UNCHANGED <<fsm, obs, main, capture, saver, life>>
NextRetention == RetBeginStep \/ RetPressureStep
SpecRetention == InitRetention /\ [][NextRetention]_vars

(* the thread that runs the sweep keeps being scheduled *)
SpecRetentionFair == SpecRetention /\ WF_vars(NextRetention)

(* The saver thread alone: the loop submits events and finally calls stop, *)
(* after which it submits nothing more.                                   *)
SaverEvent(k) == [event_id |-> k, frames |-> <<>>, features |-> None, n_pre |-> 0, trig_tick |-> 0]
SubmitStep ==
    /\ ~stop_flag
    /\ Len(submitted) < MaxEvents
    /\ submit(SaverEvent(Len(submitted) + 1))
    /\ UNCHANGED <<fsm, obs, main, capture, life, disk>>
StopStep == stop /\ UNCHANGED <<fsm, obs, main, capture, life, disk>>
WorkerStep == Worker /\ UNCHANGED <<fsm, obs, main, capture, life>>

(* the disks the saver is run on: an empty base_dir with room; a nearly   *)
(* full disk whose base_dir holds one directory, removable or not; a      *)
(* disk with little room left and a directory that cannot be removed; a   *)
(* base_dir that does not exist yet                                       *)
SaverDisks ==
    {[d |-> {}, f |-> 100, e |-> GoodDisk],
     [d |-> {}, f |-> 100, e |-> [base_exists |-> FALSE, usage_ok |-> TRUE]],
     [d |-> {[id |-> 1, mtime |-> 20, size |-> 2, stuck |-> FALSE]}, f |-> 4, e |-> GoodDisk],
     [d |-> {[id |-> 1, mtime |-> 20, size |-> 2, stuck |-> TRUE]}, f |-> 4, e |-> GoodDisk],
     [d |-> {[id |-> 1, mtime |-> 20, size |-> 2, stuck |-> TRUE]}, f |-> 6, e |-> GoodDisk]}

InitSaverAlone ==
    /\ InitFSM(SlowFps)
    /\ InitMain(DefaultPre, DefaultPost)
    /\ InitCapture
    /\ InitSaver
    /\ LifeAt("loop", GoodEnv)
    /\ \E c \in SaverDisks : DiskAt(c.d, c.f, c.e)
NextSaver == SubmitStep \/ StopStep \/ WorkerStep
SpecSaver == InitSaverAlone /\ [][NextSaver]_vars

(* the saver thread is scheduled again and again, and its wait on the     *)
(* condition variable times out every 0.5 s                               *)
SpecSaverFair == SpecSaver /\ WF_vars(WorkerStep)

---------------------------------------------------------------------------
(* Properties.  Every step of each specification is one update call: the  *)
(* primed variables are the state after the call, now' the clock value it *)
(* read, ft' its features and ret' its result.                            *)

Latched == <<prelim_hist_len, still_deadline, pre_theta_max, pre_ratio_min, pre_hip_drop>>
Appended(old, new, x) ==
    \/ new = Append(old, x)
    \/ Len(old) >= 1 /\ Len(new) = Len(old) /\ new = Append(Tail(old), x)

(* C1: a call made while now < cooldown_until returns (false, none),      *)
(* leaves the state and every latched field as they were, and appends     *)
(* exactly one entry to the history when the pose yields features and     *)
(* none otherwise.                                                        *)
C1_CooldownCall ==
    [][ now' < cooldown_until =>
          /\ ret' = NoTrigger
          /\ state' = state
          /\ cooldown_until' = cooldown_until
          /\ Latched' = Latched
          /\ IF ft' # None THEN Appended(history, history', ft')
                           ELSE history' = history ]_vars
C1_Witness ==
    /\ trig_time # Never
    /\ now > trig_time
    /\ now < cooldown_until
    /\ ft # None

(* C2: whenever a trigger is returned, an earlier call latched and the    *)
(* clock value at the trigger is at most T_still_sec + C_grace_sec after  *)
(* the clock value at that latch.                                         *)
C2_TriggerWithinGrace ==
    ret.triggered =>
        /\ latch_time # Never
        /\ latch_time < now
        /\ now - latch_time <= T_still_sec + C_grace_sec

(* C3: on a call in await_still, outside cooldown, with features and      *)
(* since >= N_still, a trigger is returned iff D holds for the current    *)
(* entry and C holds over the most recent N_still + 1 history entries; a  *)
(* trigger sets state idle and cooldown_until = now + cooldown_sec.       *)
C3_TriggerIffStillAndSized ==
    [][ ( /\ state = "await_still"
          /\ ~(now' < cooldown_until)
          /\ ft' # None
          /\ Len(history') - prelim_hist_len >= n_still )
        => /\ ret'.triggered <=>
                ( /\ history'[Len(history')].h_person >= min_person_height_px
                  /\ StillOver(LastK(history', n_still + 1)) )
           /\ ret'.triggered =>
                (state' = "idle" /\ cooldown_until' = now' + cooldown_sec) ]_vars

(* C4: scenario 1 (default thresholds, infer_fps = 10, 10 upright, 4      *)
(* falling and 12 still ticks) has produced exactly one trigger when the  *)
(* run is over.                                                           *)
C4_Scenario1OneTrigger == Scenario1Done => triggers = 1

(* C5: after a first trigger whose cooldown has expired, a call in        *)
(* await_still that completes at least N_still still ticks since the      *)
(* latch, within the deadline and with D, returns a trigger, however many *)
(* features were fed before.                                              *)
AllStill(seg) ==
    \A i \in 1..(Len(seg) - 1) : Abs(seg[i + 1].hip_y - seg[i].hip_y) <= v_still_px_per_frame
C5_LaterFallTriggers ==
    [][ ( /\ trig_time # Never
          /\ state = "await_still"
          /\ latch_time >= cooldown_until
          /\ ft' # None
          /\ fed_since_latch + 1 >= n_still
          /\ now' <= still_deadline
          /\ ft'.h_person >= min_person_height_px
          /\ Len(history') >= n_still + 1
          /\ AllStill(LastK(history', n_still + 1)) )
        => ret'.triggered ]_vars

(* C6: with a non-decreasing clock, a call made less than cooldown_sec    *)
(* after a trigger does not return a trigger.                             *)
C6_TriggersApart ==
    [][ (trig_time # Never /\ now' - trig_time < cooldown_sec) => ~ret'.triggered ]_vars
C6_Witness == triggers >= 2

(* C7: a call whose current features have h_person below                  *)
(* min_person_height_px neither moves the FSM from idle to await_still    *)
(* nor returns a trigger.                                                 *)
C7_SizeGate ==
    [][ (ft' # None /\ ft'.h_person < min_person_height_px)
        => /\ ~ret'.triggered
           /\ ~(state = "idle" /\ state' = "await_still") ]_vars
C7_Witness ==
    /\ state = "await_still"
    /\ ft # None
    /\ ft.h_person < min_person_height_px
    /\ now >= cooldown_until
    /\ Len(history) - prelim_hist_len >= n_still
    /\ PredC(history, Len(history) - prelim_hist_len)

(* C8: the call that moves idle to await_still returns (false, none) and  *)
(* latches prelim_hist_len = |history|, still_deadline = now + T_still +  *)
(* C_grace, the greatest theta and the least ratio of the history and the *)
(* current hip drop; no other call changes the latched values, and a      *)
(* trigger's snapshot carries them.                                       *)
C8_LatchAndSnapshot ==
    [][ /\ (state = "idle" /\ state' = "await_still") =>
              /\ ret' = NoTrigger
              /\ prelim_hist_len' = Len(history')
              /\ still_deadline' = now' + T_still_sec + C_grace_sec
              /\ \A i \in 1..Len(history') : history'[i].theta <= pre_theta_max'
              /\ \E i \in 1..Len(history') : history'[i].theta = pre_theta_max'
              /\ \A i \in 1..Len(history') : history'[i].ratio >= pre_ratio_min'
              /\ \E i \in 1..Len(history') : history'[i].ratio = pre_ratio_min'
              /\ pre_hip_drop' = HipDrop(history')
        /\ ~(state = "idle" /\ state' = "await_still") => Latched' = Latched
        /\ ret'.triggered =>
              /\ ret'.snap.theta_max = pre_theta_max
              /\ ret'.snap.ratio_min = pre_ratio_min
              /\ ret'.snap.hip_drop = pre_hip_drop ]_vars
C8_Witness ==
    /\ ret.triggered
    /\ ret.snap.theta_max # ThetaMax(history)
    /\ ret.snap.ratio_min # RatioMin(history)
    /\ ret.snap.hip_drop # HipDrop(history)

(* C9: a call with features made in await_still at now > still_deadline   *)
(* leaves the FSM idle and returns no trigger.                            *)
C9_GiveUpAfterDeadline ==
    [][ (state = "await_still" /\ ft' # None /\ now' > still_deadline)
        => (state' = "idle" /\ ~ret'.triggered) ]_vars

(* C10 as stated: a call made exactly at now = cooldown_until returns     *)
(* (false, none) and evaluates no transition.                             *)
C10_BoundaryStillCooling ==
    [][ now' = cooldown_until =>
          (ret' = NoTrigger /\ state' = state /\ Latched' = Latched) ]_vars

(* C10 amended: a call made exactly at now = cooldown_until is no longer  *)
(* cooling down: it returns (false, none), and with features present in   *)
(* state idle it moves to await_still exactly when A, B and D hold.       *)
C10_BoundaryEvaluates ==
    [][ (now' = cooldown_until /\ state = "idle" /\ ft' # None)
        => /\ ret' = NoTrigger
           /\ state' = "await_still" <=>
                (PredA(history') /\ PredB(history') /\ PredD(history')) ]_vars
C10_Witness ==
    /\ trig_time # Never
    /\ now = cooldown_until
    /\ latch_time = now
    /\ state = "await_still"

(* C11 as stated: the hip drop that B computes is never negative, for any *)
(* history.                                                               *)
C11_HipDropNeverNegative == HipDrop(history) >= 0

(* C11 amended: over the last max(2, min(|history|, N_drop + 1)) entries   *)
(* the hip drop is negative exactly when the current hip_y is below that  *)
(* of every earlier entry, positive exactly when some earlier entry lies  *)
(* below the current one, and 0 for a motionless window; it is 0 on fewer *)
(* than two entries.                                                      *)
C11_HipDropSign ==
    IF Len(history) < 2 THEN HipDrop(history) = 0
    ELSE LET k == Max(2, Min(Len(history), n_drop + 1))
             first == Len(history) - k + 1
             cur == history[Len(history)].hip_y
             earlier == {history[i].hip_y : i \in first..(Len(history) - 1)}
         IN /\ HipDrop(history) < 0 <=> \A y \in earlier : cur < y
            /\ HipDrop(history) > 0 <=> \E y \in earlier : y < cur
            /\ (\A y \in earlier : y = cur) => HipDrop(history) = 0
C11_Witness ==
    /\ Len(history) >= n_drop + 1
    /\ HipDrop(history) < 0
    /\ Cardinality({history[i].hip_y : i \in 1..Len(history)}) >= 3

---------------------------------------------------------------------------
(* Properties of the inference loop.  A step that raises ticks is one     *)
(* iteration of the loop; a step that raises calls made an update call.   *)

(* C12: on a tick whose pose is none the loop does not call update, and   *)
(* an update call whose pose yields no features returns (false, none) and *)
(* leaves the history, the state, the deadline, the cooldown and the      *)
(* latched snapshot as they were.                                         *)
C12_MissingPose ==
    [][ /\ (ticks' = ticks + 1 /\ hist'[Len(hist')].pose = None) =>
              (calls' = calls /\ fsm' = fsm /\ ret' = ret)
        /\ (calls' = calls + 1 /\ ft' = None) =>
              /\ ret' = NoTrigger
              /\ history' = history
              /\ state' = state
              /\ cooldown_until' = cooldown_until
              /\ Latched' = Latched ]_vars
C12_Witness ==
    /\ Len(hist) >= 2
    /\ hist[Len(hist)].pose = None
    /\ hist[Len(hist) - 1].pose = PoseFaint
    /\ ft = None
    /\ now = clock - TickPeriod
    /\ state = "await_still"
    /\ now > still_deadline

(* C13: the pre list of a collecting record does not contain the frame of *)
(* the trigger tick, and in every submitted event the frame of the        *)
(* trigger tick is the first one after the pre frames.                    *)
C13_TriggerFrameFirstPost ==
    /\ collecting # None =>
          \A j \in 1..Len(collecting.pre) : collecting.pre[j].tick # collecting.trig_tick
    /\ \A i \in 1..Len(queue) :
          LET ev == queue[i]
          IN /\ \A j \in 1..ev.n_pre : ev.frames[j].tick # ev.trig_tick
             /\ Len(ev.frames) > ev.n_pre
             /\ ev.frames[ev.n_pre + 1].tick = ev.trig_tick

(* C14: every submitted event has ceil(pre_seconds * infer_fps) +         *)
(* ceil(post_seconds * infer_fps) frames, give or take one.               *)
CeilDiv(x, d) == (x + d - 1) \div d
C14_EventLength ==
    \A i \in 1..Len(queue) :
        Abs(Len(queue[i].frames)
            - (CeilDiv(pre_seconds * infer_fps, 10) + CeilDiv(post_seconds * infer_fps, 10))) <= 1

(* C15: in every submitted event the t_rel_ms values are non-decreasing   *)
(* in list order, however the capture thread's frames fall between the    *)
(* loop's ticks.                                                          *)
C15_RelTimesOrdered ==
    \A i \in 1..Len(queue) :
        \A j \in 1..(Len(queue[i].frames) - 1) :
            queue[i].frames[j].t_rel_ms <= queue[i].frames[j + 1].t_rel_ms
C15_Witness ==
    \E i \in 1..Len(queue) :
        LET fr == queue[i].frames
        IN /\ Len(fr) >= 4
           /\ fr[1].t_rel_ms < 0
           /\ fr[Len(fr)].t_rel_ms > 0
           /\ \E j \in 1..(Len(fr) - 1) : fr[j].t_rel_ms = fr[j + 1].t_rel_ms

(* C16: in every submitted event each pre frame has t_rel_ms < 0 and each *)
(* frame after the pre frames has t_rel_ms >= 0, also when several ticks  *)
(* saw the same latest frame.                                             *)
C16_PreNegativePostNonNegative ==
    \A i \in 1..Len(queue) :
        LET ev == queue[i]
        IN \A j \in 1..Len(ev.frames) :
              IF j <= ev.n_pre THEN ev.frames[j].t_rel_ms < 0
                               ELSE ev.frames[j].t_rel_ms >= 0

---------------------------------------------------------------------------
(* Properties of the saver thread. *)

IsPrefix(a, b) == Len(a) <= Len(b) /\ a = SubSeq(b, 1, Len(a))
Ids(q) == {q[i].event_id : i \in 1..Len(q)}
Range(sq) == {sq[i] : i \in 1..Len(sq)}

(* C17: events are saved in submission order: the worker takes them in    *)
(* the order submit received them, and the save of one has ended, with or *)
(* without an exception, before the next is taken.                        *)
C17_SavedInSubmissionOrder ==
    /\ IsPrefix(taken, submitted)
    /\ [i \in 1..Len(outcomes) |-> outcomes[i][1]]
         = SubSeq(taken, 1, Len(outcomes))
    /\ Len(taken) - Len(outcomes) = (IF worker = "save" THEN 1 ELSE 0)
C17_Witness ==
    /\ Len(taken) >= 3
    /\ Len(queue) >= 1
    /\ worker = "save"

(* C18: the worker returns only with the flag set and the queue empty,    *)
(* and by then every event that was queued when stop set the flag has     *)
(* been through _save_event.                                              *)
C18_DrainOnStop ==
    worker = "exited" =>
        /\ stop_flag
        /\ queue = <<>>
        /\ \A e \in at_stop : \E i \in 1..Len(outcomes) : outcomes[i][1] = e
C18_Witness ==
    /\ worker = "exited"
    /\ Cardinality(at_stop) >= 2

(* C19: submit appends the event to the queue whatever the queue holds    *)
(* and whatever the worker is doing, and every submitted event is         *)
(* eventually taken by the worker, no event more than once.               *)
C19_NoEventDropped ==
    /\ [][ Len(submitted') = Len(submitted) + 1 =>
              /\ Len(queue') = Len(queue) + 1
              /\ SubSeq(queue', 1, Len(queue)) = queue
              /\ queue'[Len(queue')].event_id = submitted'[Len(submitted')] ]_vars
    /\ [](\A i, j \in 1..Len(taken) : i # j => taken[i] # taken[j])
    /\ \A e \in 1..MaxEvents : (e \in Range(submitted)) ~> (e \in Range(taken))

(* C20: a save that ends with an exception leaves the worker running and  *)
(* the queue as it was, and every event queued behind a failed save is    *)
(* still saved.                                                           *)
C20_FailureIsolated ==
    /\ [][ (Len(outcomes') = Len(outcomes) + 1 /\ ~outcomes'[Len(outcomes')][2]) =>
              (worker' = "wait" /\ queue' = queue) ]_vars
    /\ \A e \in 1..MaxEvents :
          ((\E i \in 1..Len(outcomes) : ~outcomes[i][2]) /\ e \in Ids(queue))
             ~> (\E i \in 1..Len(outcomes) : outcomes[i][1] = e)

---------------------------------------------------------------------------
(* C27: in await_still the counter since = |history| - prelim_hist_len    *)
(* equals the number of features appended since the latch, also once the  *)
(* bounded history is full.                                               *)
C27_SinceCountsFeatures ==
    state = "await_still" => Len(history) - prelim_hist_len = fed_since_latch

(* the file names _save_event writes the annotated images of an event to *)
annotated_files(ev) == {ev.frames[j].t_rel_ms : j \in 1..Len(ev.frames)}

(* C29: the annotated file names of the frames of a submitted event are   *)
(* pairwise distinct, so as many files are written as the event has       *)
(* frames, also when several ticks saw the same latest frame.             *)
C29_DistinctFileNames ==
    \A i \in 1..Len(queue) : Cardinality(annotated_files(queue[i])) = Len(queue[i].frames)

(* C30: a tick that begins with a collecting record makes no update call, *)
(* and at most one event is being collected at any time.                  *)
C30_NoUpdateWhileCollecting ==
    [][ (ticks' = ticks + 1 /\ collecting # None) => calls' = calls ]_vars

---------------------------------------------------------------------------
(* Properties of the capture thread. *)

(* C22: a failed read leaves the thread running and the ring and the      *)
(* index as they were; a successful read raises the index by exactly 1    *)
(* and appends a record with that index, so the indices in the ring are   *)
(* strictly increasing and the first record ever appended has index 1.    *)
C22_ReadFailureHarmless ==
    /\ [][ /\ read_failures' = read_failures + 1 =>
                 (cap_thread' = "running" /\ ring' = ring /\ cap_index' = cap_index)
           /\ cap_index' # cap_index =>
                 /\ cap_index' = cap_index + 1
                 /\ ring' = RingAppend(ring, [index |-> cap_index']) ]_vars
    /\ [](\A i, j \in 1..Len(ring) : i < j => ring[i].index < ring[j].index)
    /\ []((cap_index >= 1 /\ cap_index <= RingMaxLen) => ring[1].index = 1)
C22_Witness ==
    /\ read_failures >= 2
    /\ cap_thread = "running"
    /\ Len(ring) >= 2
    /\ ring[Len(ring)].index = cap_index
    /\ ring[1].index > 1

(* C23: the ring never holds more than its capacity and, at capacity,     *)
(* holds the newest records (the oldest were evicted); latest() is none   *)
(* only if no frame was ever captured, and otherwise is the record with   *)
(* the highest index appended so far; the records the loop saw on         *)
(* successive ticks have non-decreasing indices.                          *)
C23_RingAndLatest ==
    /\ Len(ring) <= RingMaxLen
    /\ \A i \in 1..Len(ring) : ring[i].index = cap_index - Len(ring) + i
    /\ cap_index >= RingMaxLen => Len(ring) = RingMaxLen
    /\ latest = None => cap_index = 0
    /\ latest # None => latest.index = cap_index
    /\ \A i \in 1..(Len(hist) - 1) : hist[i].lr.index <= hist[i + 1].lr.index

---------------------------------------------------------------------------
(* Properties of the start and the end of main. *)

(* C24: once the loop is interrupted nothing more is submitted: a         *)
(* collecting record short of need_post frames is dropped and the queue   *)
(* stays as it was; the finally block calls saver.stop before             *)
(* capture.stop.                                                          *)
C24_Shutdown ==
    /\ [][ main_pc # "loop" => (submitted' = submitted /\ queue' = queue) ]_vars
    /\ [](main_pc \in {"finally", "returned"} /\ collecting # None
            => collecting.event_id \notin Range(submitted))
    /\ [](\A i \in 1..Len(queue) :
            Len(queue[i].frames) - queue[i].n_pre >= need_post)
    /\ [](cap_stop_flag => stop_flag)
    /\ [](main_pc = "returned" /\ exit_code = ExitOk
            => shutdown_log = <<"saver.stop", "capture.stop">>)
C24_Witness ==
    /\ main_pc = "returned"
    /\ exit_code = ExitOk
    /\ collecting # None
    /\ Len(collecting.frames) >= 1
    /\ Len(collecting.frames) < collecting.need_post
    /\ stop_flag
    /\ cap_stop_flag

(* C25: main returns 2 when no configuration could be loaded (the         *)
(* configured file fails and the example file is missing or fails too), 3 *)
(* when the camera cannot be opened, 101 when the backend is unknown or   *)
(* cannot be constructed, and 0 after the finally block; in the three     *)
(* failure cases no loop iteration runs.                                  *)
NoConfig == ~env.primary_ok /\ (~env.example_exists \/ ~env.example_ok)
NoBackend == env.backend # "mediapipe" \/ ~env.estimator_ok
C25_ExitCodes ==
    main_pc # "start" =>
       /\ NoConfig => (main_pc = "returned" /\ exit_code = ExitConfig /\ ticks = 0)
       /\ (~NoConfig /\ ~env.camera_ok) =>
             (main_pc = "returned" /\ exit_code = ExitCamera /\ ticks = 0)
       /\ (~NoConfig /\ env.camera_ok /\ NoBackend) =>
             (main_pc = "returned" /\ exit_code = ExitBackend /\ ticks = 0)
       /\ (~NoConfig /\ env.camera_ok /\ ~NoBackend /\ main_pc = "returned") =>
             exit_code = ExitOk

(* C26: in scenario 6 every frame of a submitted event has t_rel_ms in    *)
(* [-1000, 2000] and consecutive frames are 100 ms apart, give or take 1. *)
C26_Scenario6Times ==
    \A i \in 1..Len(queue) :
        LET fr == queue[i].frames
        IN /\ \A j \in 1..Len(fr) : fr[j].t_rel_ms >= -1000 /\ fr[j].t_rel_ms <= 2000
           /\ \A j \in 1..(Len(fr) - 1) :
                 Abs(fr[j + 1].t_rel_ms - fr[j].t_rel_ms - 100) <= 1

---------------------------------------------------------------------------
(* Properties of the retention sweep. *)

C28_RetentionTerminates == (ret_pc = "pressure") ~> (ret_pc = "returned")

---------------------------------------------------------------------------
(* C31: after every update, read on a clock that does not go back, state  *)
(* is idle or await_still, and while the clock value read is before       *)
(* cooldown_until the state is idle.                                      *)
C31_IdleDuringCooldown ==
    /\ state \in {"idle", "await_still"}
    /\ now < cooldown_until => state = "idle"
C31_Witness ==
    /\ triggers >= 1
    /\ now > trig_time
    /\ now < cooldown_until
    /\ ft # None
    /\ PredA(history) /\ PredB(history) /\ PredD(history)
    /\ state = "idle"

(* C32: once stop has released the device, the capture thread is neither *)
(* inside cap.read() nor about to call it.                                *)
C32_ReleaseAfterThreadEnd ==
    cap_released =>
        /\ cap_thread # "reading"
        /\ ~(cap_thread = "running" /\ ~cap_stop_flag)

=============================================================================
